---- MODULE Spec2Model ----
(***************************************************************************)
(* Model of BartGadget (bartgadget.cpp / bartgadget.h / bart_api.h):       *)
(* the pipeline stage BartGadget::process, its scope guard, the textual    *)
(* helpers it applies to script lines, and the in-memory CFL registry it   *)
(* calls through bart_api.h.                                               *)
(*                                                                         *)
(* Strings are sequences of one-character strings.  Positions inside the   *)
(* string operators are the 0-based positions of std::string.              *)
(***************************************************************************)
EXTENDS Integers, Sequences, FiniteSets, TLC

\* ------------------------------------------------------------------ bounds
\* Number of threads that call process concurrently.
NThreads == 2
\* Largest number of reconstruction bits (rbit_) in one input message.
MaxBits == 3
\* Largest number of `$`/plain tokens after "bart" in a substitution input.
MaxTok == 3
\* Largest number of register_* calls in one run of the registry alone.
MaxRegs == 3
\* Largest repetition count N of a pipeline shape.
MaxRep == 4
\* Largest number of maps the engine's script produces per repetition.
MaxMaps == 2

\* -------------------------------------------------------- program constants
\* enum { MAX_ARGS = 256 } of call_BART.
MAX_ARGS == 256
\* std::string::npos, kept symbolic: every comparison against it in the code
\* is an equality test, and every count derived from it exceeds the string.
NPOS == -1
\* header.size() / DIMS_OUT.size(): the capacity handed to load_mem_cfl.
MAX_DIMS == 16

\* ----------------------------------------------------------------- strings
Digits == <<"0","1","2","3","4","5","6","7","8","9">>

Min2(a, b) == IF a < b THEN a ELSE b

\* std::to_string of an unsigned value.
RECURSIVE to_string(_)
to_string(n) ==
  IF n < 10 THEN <<Digits[n + 1]>>
  ELSE to_string(n \div 10) \o <<Digits[(n % 10) + 1]>>

\* std::isspace on the characters the inputs use.
isspace(c) == c \in {" ", "\t"}

\* std::string::find(c, pos): first position >= pos holding c, else npos.
find(str, c, pos) ==
  IF pos = NPOS \/ pos >= Len(str) THEN NPOS
  ELSE LET hits == {p \in pos..(Len(str) - 1) : str[p + 1] = c}
       IN  IF hits = {} THEN NPOS
           ELSE CHOOSE p \in hits : \A q \in hits : p <= q

\* The count std::string uses for (pos, n): n clamped to the rest of the
\* string.  n = npos - pos (unsigned wrap-around) always exceeds the rest.
clamp(str, pos, n) == IF n = NPOS THEN Len(str) - pos ELSE Min2(n, Len(str) - pos)

\* std::string::substr(pos, n).
substr(str, pos, n) == SubSeq(str, pos + 1, pos + clamp(str, pos, n))

\* std::string::replace(pos, n, by).
replace(str, pos, n, by) ==
  SubSeq(str, 1, pos) \o by \o SubSeq(str, pos + clamp(str, pos, n) + 1, Len(str))

\* internal::ltrim / rtrim / trim.
RECURSIVE ltrim(_)
ltrim(str) ==
  IF str # <<>> /\ isspace(Head(str)) THEN ltrim(Tail(str)) ELSE str

RECURSIVE rtrim(_)
rtrim(str) ==
  IF str # <<>> /\ isspace(str[Len(str)])
  THEN rtrim(SubSeq(str, 1, Len(str) - 1)) ELSE str

trim(str) == rtrim(ltrim(str))

\* Splitting on the single delimiter ' ', empty tokens dropped: what
\* strtok(s, " ") and boost::char_separator<char>(" ") both produce.
\* A token starts at a non-blank that is first or follows a blank, and runs
\* up to the next blank; the tokens are collected by halving the range.
token_at(str, i) ==
  SubSeq(str, i, CHOOSE j \in i..Len(str) :
                   /\ j = Len(str) \/ str[j + 1] = " "
                   /\ \A k \in i..j : str[k] # " ")

RECURSIVE tokens_in(_, _, _)
tokens_in(str, lo, hi) ==
  IF lo > hi THEN <<>>
  ELSE IF lo = hi
       THEN (IF str[lo] # " " /\ (lo = 1 \/ str[lo - 1] = " ")
             THEN <<token_at(str, lo)>> ELSE <<>>)
       ELSE LET mid == (lo + hi) \div 2
            IN  tokens_in(str, lo, mid) \o tokens_in(str, mid + 1, hi)

tokens(str) == tokens_in(str, 1, Len(str))

\* Joining tokens with single blanks (operator<< of the command builders).
RECURSIVE join(_)
join(toks) ==
  IF toks = <<>> THEN <<>>
  ELSE IF Len(toks) = 1 THEN toks[1]
  ELSE toks[1] \o <<" ">> \o join(Tail(toks))

\* ------------------------------------------------------ Default_parameters
ParamNames ==
  << <<"r","e","c","o","n","_","m","a","t","r","i","x","_","x">>,
     <<"r","e","c","o","n","_","m","a","t","r","i","x","_","y">>,
     <<"r","e","c","o","n","_","m","a","t","r","i","x","_","z">>,
     <<"F","O","V","_","x">>,
     <<"F","O","V","_","y">>,
     <<"F","O","V","_","z">>,
     <<"a","c","c","_","f","a","c","t","o","r","_","P","E","1">>,
     <<"a","c","c","_","f","a","c","t","o","r","_","P","E","2">>,
     <<"r","e","f","e","r","e","n","c","e","_","l","i","n","e","s","_","P","E","1">>,
     <<"r","e","f","e","r","e","n","c","e","_","l","i","n","e","s","_","P","E","2">> >>

ParamIds == 1..Len(ParamNames)

IsParam(name) == \E i \in ParamIds : ParamNames[i] = name

ParamId(name) == CHOOSE i \in ParamIds : ParamNames[i] = name

\* The struct Default_parameters as a function from the field's position to
\* its uint16_t value.  Each assignment gives field i the value base + i.
DpBases == {0, 120, 65525}

DpOf(base) == [i \in ParamIds |-> (base + i) % 65536]

\* ------------------------------------------- replace_default_parameters
\* Position at which the scan resumes after the token found at pos.
\* The code resumes at pos_end, the position the blank had BEFORE the
\* replacement changed the length of the string.
ResumeAt(pos, pos_end, oldStr, newStr) == pos_end

\* One pass of the while loop, from scan position pos.
RECURSIVE replace_loop(_, _, _)
replace_loop(str, pos, params) ==
  LET p == find(str, "$", pos) IN
  IF p = NPOS THEN str
  ELSE LET pos_end  == find(str, " ", p)
           pos_diff == IF pos_end = NPOS THEN NPOS ELSE pos_end - p
           tmp      == Tail(substr(str, p, pos_diff))
           str2     == IF IsParam(tmp)
                       THEN replace(str, p, pos_diff, to_string(params[ParamId(tmp)]))
                       ELSE str
       IN  replace_loop(str2, ResumeAt(p, pos_end, str, str2), params)

replace_default_parameters(str, params) == replace_loop(str, 0, params)

\* --------------------------------------------------------------- call_BART
\* The argument vector call_BART builds: the tokens of cmdline, at most
\* MAX_ARGS - 1 of them (the loop stops at argc = MAX_ARGS - 1).
argv_of(cmdline) ==
  LET toks == tokens(cmdline)
  IN  SubSeq(toks, 1, Min2(Len(toks), MAX_ARGS - 1))

\* ------------------------------------------------- literals of process
S_bart == <<"b","a","r","t">>
S_meas == <<"m","e","a","s","_","g","a","d","g","e","t","r","o","n">>
S_meas_ref == <<"m","e","a","s","_","g","a","d","g","e","t","r","o","n","_","r","e","f">>
S_resize == <<"b","a","r","t"," ","r","e","s","i","z","e"," ","-","c"," ","0"," ">>
S_resize_tail == <<" ","m","e","a","s","_","g","a","d","g","e","t","r","o","n","_","r","e","f"," ","r","e","f","e","r","e","n","c","e","_","d","a","t","a">>
S_reshape == <<"b","a","r","t"," ","r","e","s","h","a","p","e"," ","1","0","2","3"," ">>
S_reshape_tail == <<" ","m","e","a","s","_","g","a","d","g","e","t","r","o","n"," ","i","n","p","u","t","_","d","a","t","a">>
S_scale == <<"b","a","r","t"," ","s","c","a","l","e"," ","1",".","0"," ","m","e","a","s","_","g","a","d","g","e","t","r","o","n"," ","i","n","p","u","t","_","d","a","t","a">>
S_reshape_sfx == <<"_","r","e","s","h","a","p","e">>
SP == <<" ">>

\* ------------------------------------------------------- command scripts
L_plain == <<"b","a","r","t"," ","f","f","t"," ","i","n"," ","o","u","t">>
L_comment == <<"#"," ","s","e","t","u","p">>
L_echo == <<"e","c","h","o"," ","h","i">>
L_one == <<"b","a","r","t"," ","s","c","a","l","e"," ","$","F","O","V","_","x"," ","i","n"," ","o","u","t">>
L_two == <<"b","a","r","t"," ","r","e","s","i","z","e"," ","$","r","e","c","o","n","_","m","a","t","r","i","x","_","x"," ","$","F","O","V","_","y"," ","i","n"," ","o","u","t","2">>
L_unknown == <<"b","a","r","t"," ","f","f","t"," ","$","u","n","k","n","o","w","n"," ","i","n"," ","o","u","t">>
L_tail == <<" "," ","b","a","r","t"," ","f","f","t"," ","i","n"," ","o","u","t","3"," ","#"," ","n","o","t","e"," ">>
L_tab == <<"\t","b","a","r","t"," ","f","f","t"," ","i","n","\t","o","u","t","4","\t">>

\* n arguments " a".
repeat_a(n) == [i \in 1..(2 * n) |-> IF i % 2 = 1 THEN " " ELSE "a"]

\* A command line of MAX_ARGS + 1 tokens.
L_long == S_bart \o repeat_a(MAX_ARGS)

\* The contents the command script file may have, as sequences of lines.
Scripts ==
  << <<L_plain>>,
     <<L_comment, L_one, L_echo, L_tail>>,
     <<L_two>>,
     <<L_unknown>>,
     <<L_long>>,
     <<L_comment, L_echo>>,
     <<L_tab>> >>

ScriptIds == 1..Len(Scripts)

\* ------------------------------------------------------------------ state
Threads == 1..NThreads
NoThread == 0

VARIABLES
  mtx,        \* static std::mutex mtx of process: its owner, or NoThread
  frame,      \* per thread: the activation record of process (its locals)
  hist,       \* per thread: what the running invocation has done so far
  registry,   \* the in-memory CFL table behind bart_api.h
  allocated,  \* the memory blocks that are currently allocated
  badFree,    \* a block was freed that was not allocated (double free)
  freeCount,  \* registry alone: number of blocks the registry has freed
  dirExists,  \* per thread: outputFolderPath of its invocation exists on disk
  mounted,    \* per thread: a tmpfs is mounted over that directory
  dp,         \* BartGadget::dp, the Default_parameters set by process_config
  sub,        \* one application of replace_default_parameters to one line
  lastOp,     \* registry alone: the kind of the last bart_api.h call
  regCount,   \* registry alone: number of register_* calls made
  log,        \* the registry's policy, and a record of the calls made on it
  remap       \* one pass of a shape through the layout commands and the split

vars == <<mtx, frame, hist, registry, allocated, badFree, freeCount,
          dirExists, mounted, dp, sub, lastOp, regCount, log, remap>>

\* Memory blocks.  kind 1: data_ of a reconstruction bit of the message m1,
\* 2: its ref_ data, 3 and 4: the same two arrays of the loop's copy
\* `recon_bit`, 5: a buffer the engine allocated for an output.
Ptr(t, kind, i) == t * 100 + kind * 10 + i

MsgBlocks(t, n) == {Ptr(t, k, b) : k \in {1, 2}, b \in 1..n}

CopyBlocks(t, b) == {Ptr(t, 3, b), Ptr(t, 4, b)}

Zeros(n) == [i \in 1..n |-> 0]

Range(s) == {s[i] : i \in DOMAIN s}

\* --------------------------------------------------- bart_api.h (registry)
\* An entry of the table: name, shape, ownership tag, data pointer.
Entry(name, dims, own, ptr) == [name |-> name, dims |-> dims, own |-> own, ptr |-> ptr]

\* What the registry does with a registration under a name that has a live
\* entry: it refuses it, or it replaces the entry.  One of the two, fixed
\* for the whole run (log.policy).
Policies == {"fail", "replace"}

NoLook == [name |-> <<>>, ptr |-> 0, dims |-> <<>>]

\* The record kept of the calls made on the registry: per register_* call
\* (in call order) its name, tag, whether its shape was malformed and
\* whether an entry was created; the number of calls made before the latest
\* release; the deallocations made, as <<pointer, deallocator>>; the last
\* lookup.
IdleLog(p) ==
  [policy |-> p, calls |-> <<>>, flushed |-> 0, events |-> {}, look |-> NoLook]

Found(reg, name) == \E i \in DOMAIN reg : reg[i].name = name

\* A registry that does not look at the sign of the dimensions.
ValidShapeUnsigned(D, dimensions) == D <= MAX_DIMS /\ D <= Len(dimensions)

\* D and dimensions describe a shape the registry accepts.
ValidShape(D, dimensions) ==
  /\ D <= MAX_DIMS
  /\ D <= Len(dimensions)
  /\ \A i \in 1..D : dimensions[i] >= 0

\* The registration creates an entry.
Accepts(reg, name, D, dimensions) ==
  ValidShape(D, dimensions) /\ (Found(reg, name) => log.policy = "replace")

RECURSIVE Without(_, _)
Without(reg, name) ==
  IF reg = <<>> THEN <<>>
  ELSE IF Head(reg).name = name THEN Without(Tail(reg), name)
  ELSE <<Head(reg)>> \o Without(Tail(reg), name)

\* A registry that adds the entry without looking for the name.
register_mem_cfl_append(reg, name, D, dimensions, own, ptr) ==
  IF ValidShape(D, dimensions)
  THEN Append(reg, Entry(name, SubSeq(dimensions, 1, D), own, ptr))
  ELSE reg

\* register_mem_cfl_*(name, D, dimensions, ptr): the first D entries of
\* dimensions become the shape; the table afterwards.
register_mem_cfl(reg, name, D, dimensions, own, ptr) ==
  IF Accepts(reg, name, D, dimensions)
  THEN Append(Without(reg, name), Entry(name, SubSeq(dimensions, 1, D), own, ptr))
  ELSE reg

\* The entries a registration removes from the table.
Displaced(reg, name, D, dimensions) ==
  IF Accepts(reg, name, D, dimensions)
  THEN {reg[i] : i \in {j \in DOMAIN reg : reg[j].name = name}}
  ELSE {}

\* A registry that frees every owned block with free().
DeallocatorAlwaysFree(own) == IF own = "borrowed" THEN "none" ELSE "free"

\* How the registry gives back the block of an entry with tag own.
Deallocator(own) ==
  IF own = "malloc" THEN "free" ELSE IF own = "new" THEN "delete[]" ELSE "none"

\* The deallocations made for a set of entries that leave the table.
Deallocations(entries) ==
  {<<e.ptr, Deallocator(e.own)>> : e \in {x \in entries : Deallocator(x.own) # "none"}}

Lookup(reg, name) ==
  reg[CHOOSE i \in DOMAIN reg : reg[i].name = name /\ \A j \in 1..(i - 1) : reg[j].name # name]

\* A lookup that writes the shape and leaves the trailing entries alone.
load_mem_cfl_nopad(reg, name, D, dimensions) ==
  IF Found(reg, name)
  THEN LET e == Lookup(reg, name)
       IN  [ptr  |-> e.ptr,
            dims |-> [i \in 1..D |-> IF i <= Len(e.dims) THEN e.dims[i]
                                     ELSE dimensions[i]]]
  ELSE [ptr |-> 0, dims |-> dimensions]

\* load_mem_cfl(name, D, dimensions): the data pointer (0 when there is no
\* such entry) and the contents of dimensions afterwards.
load_mem_cfl(reg, name, D, dimensions) ==
  IF Found(reg, name)
  THEN LET e == Lookup(reg, name)
       IN  [ptr  |-> e.ptr,
            dims |-> [i \in 1..D |-> IF i <= Len(e.dims) THEN e.dims[i] ELSE 0]]
  ELSE [ptr |-> 0, dims |-> dimensions]

OwnedPtrs(reg) == {reg[i].ptr : i \in {j \in DOMAIN reg : reg[j].own # "borrowed"}}

\* A release that frees the owned blocks and leaves the table as it is.
deallocate_keeps_table(reg) == [table |-> reg, frees |-> OwnedPtrs(reg)]

\* A release that frees the owned blocks and leaves the borrowed entries.
deallocate_keeps_borrowed(reg) ==
  [table |-> SelectSeq(reg, LAMBDA e : e.own = "borrowed"), frees |-> OwnedPtrs(reg)]

\* deallocate_all_mem_cfl(): what is left of the table, and the pointers it
\* hands to free / delete[].
deallocate_all_mem_cfl(reg) == [table |-> <<>>, frees |-> OwnedPtrs(reg)]

\* ------------------------------------------- layout commands and split
UINT16 == 65536

RECURSIVE Product(_)
Product(s) == IF s = <<>> THEN 1 ELSE Head(s) * Product(Tail(s))

\* The pipeline shapes [E0,E1,E2,CHA,N,S,LOC] of recon_bit.data_.data_.
PipeShapes ==
  { <<e0, 1, 1, cha, n, st, loc>> :
      e0 \in {1, 2}, cha \in {1, 2}, n \in 1..MaxRep, st \in {1, 2}, loc \in {1, 2} }

\* Lines 920-923: the shape of input_data.  `bart reshape 1023` gives the
\* first ten axes the lengths listed in cmd2; `bart scale 1.0` leaves the
\* shape as it is.
to_engine_dims(D) ==
  IF D[5] # 1
  THEN <<D[1], D[2], D[3], D[4], 1, 1, 1, D[6], D[7], D[5]>>
  ELSE D

\* The engine's arrays have MAX_DIMS axes, the unused ones of length 1.
EngineDims(shape) == shape \o [i \in 1..(MAX_DIMS - Len(shape)) |-> 1]

\* Lines 970-971: the ten lengths listed in cmd3.
cmd3_dims(hdr) ==
  <<hdr[1], hdr[2], hdr[3], hdr[4], hdr[10] * hdr[5], hdr[6], hdr[7], hdr[8], hdr[9], 1>>

\* Lines 1005-1006: data_dims, the first seven entries of DIMS_OUT.
data_dims(dims_out) == SubSeq(dims_out, 1, 7)

\* Lines 1011-1019: data_dims_Final.
data_dims_Final(dims_out, hdr) ==
  [data_dims(dims_out) EXCEPT ![5] = dims_out[5] \div hdr[5]]

\* A loop that advances by one whatever the number of maps.
StepOne(n, maps) == (n + 1) % UINT16

\* Line 1027: `n += header[4]` on a uint16_t.
Step(n, maps) == (n + maps) % UINT16

\* A chunk taken with the set and location indices exchanged.
chunk_swapped(dd, n, st, loc) ==
  LET size == dd[1] * dd[2] * dd[3] * dd[4]
      from == size * (n + dd[5] * (loc + dd[7] * st))
  IN  [i \in 1..size |-> from + i - 1]

\* Lines 1031-1040: the chunk for (n, s, loc), as the offsets in DATA of its
\* elements: chunk_dims[0..3] elements from &DATA(0,0,0,0,n,s,loc) on.
chunk(dd, n, st, loc) ==
  LET size == dd[1] * dd[2] * dd[3] * dd[4]
      from == size * (n + dd[5] * (st + dd[6] * loc))
  IN  [i \in 1..size |-> from + i - 1]

\* Line 1027: the chunks of one (s, loc) pair, from n on.
RECURSIVE n_loop(_, _, _, _, _)
n_loop(dd, maps, n, st, loc) ==
  IF n < dd[5]
  THEN <<chunk(dd, n, st, loc)>> \o n_loop(dd, maps, Step(n, maps), st, loc)
  ELSE <<>>

\* Line 1026.
RECURSIVE s_loop(_, _, _, _)
s_loop(dd, maps, st, loc) ==
  IF st < dd[6]
  THEN n_loop(dd, maps, 0, st, loc) \o s_loop(dd, maps, (st + 1) % UINT16, loc)
  ELSE <<>>

\* Lines 1025-1043: the chunks in the order they are appended to DATA_Final.
RECURSIVE loc_loop(_, _, _)
loc_loop(dd, maps, loc) ==
  IF loc < dd[7]
  THEN s_loop(dd, maps, 0, loc) \o loc_loop(dd, maps, (loc + 1) % UINT16)
  ELSE <<>>

RECURSIVE Concat(_)
Concat(ss) == IF ss = <<>> THEN <<>> ELSE Head(ss) \o Concat(Tail(ss))

\* ---------------------------------------------------------- the engine
\* in_mem_bart_main is opaque: it returns 0 or a failure code and, when it
\* succeeds, may have registered its output (named by its last argument) as
\* a buffer it allocated itself, with a shape of its own choosing.
EngineRets == {0, 1}

EngineShapes == { EngineDims(<<2, 2, 1, 1, 2, 1, 1>>) }

\* The shapes the output reshape (cmd3) may leave: the one above, and one
\* with a populated eighth axis, where cmd3 puts the set axis of a layout
\* made for N # 1.
ReshapedShapes == EngineShapes \cup { EngineDims(<<2, 2, 1, 1, 2, 1, 1, 2>>) }

\* The shapes an engine invocation made at position pc of process may
\* give its output.
ShapesAt(pc) == IF pc = "cmd3" THEN ReshapedShapes ELSE EngineShapes

\* ------------------------------------------------------ input messages
\* Shapes [E0,E1,E2,CHA,N,S,LOC] of recon_bit.data_.data_ and of the
\* reference data (*recon_bit.ref_).data_.
DataShapes == { <<2, 2, 1, 1, 1, 1, 1>>, <<2, 2, 1, 1, 2, 1, 1>> }

RefShape == <<1, 2, 1, 1, 1, 1, 1>>

\* A reconstruction bit: its data shape, and the shape of its reference
\* data, which is the data shape when there was no reference scan.
Bits(d) == { [data |-> d, ref |-> r] : r \in {d, RefShape} }

\* The messages: 1..MaxBits bits that share their data shape, all of them
\* with a reference scan or none of them.
Messages ==
  UNION { { [i \in 1..n |-> b] : b \in UNION { Bits(d) : d \in DataShapes } } :
          n \in 1..MaxBits }

\* ------------------------------------------------------------ process
IdleFrame ==
  [pc |-> "lock", m1 |-> <<>>, m1Live |-> FALSE, store |-> FALSE, guard |-> FALSE,
   is_active_ |-> "none", bit |-> 0, DIMS |-> <<>>,
   DIMS_ref |-> <<>>, script |-> 0, lineNo |-> 0, Commands_Line |-> <<>>,
   outputFile |-> <<>>, header |-> <<>>, DIMS_OUT |-> <<>>, data |-> 0,
   ret |-> "NONE"]

\* calls: per engine invocation, the position of process it was made at,
\* the script line it comes from (0 for the commands process builds) and the
\* engine's return code.  regs: the register_mem_cfl_non_managed calls made.
\* mount: the outcome of the mount request.  missAt: the number of engine
\* invocations made when a load_mem_cfl of this invocation found no entry.
IdleHist ==
  [engineCalls |-> 0, lastArgv |-> <<>>, lastCmdTokens |-> 0, failedAt |-> 0,
   callsAtFail |-> 0, lastLine |-> 0, produced |-> {}, removed |-> FALSE,
   dealloc |-> FALSE, calls |-> <<>>, regs |-> 0, mkdirFailed |-> FALSE,
   mount |-> "none", cached |-> FALSE, missAt |-> 0]

\* Every block that is allocated: the registry-side and loop-side blocks,
\* and the arrays of each message that has not been released.
Allocated ==
  allocated \cup UNION { MsgBlocks(t, Len(frame[t].m1)) :
                         t \in {u \in Threads : frame[u].m1Live} }

\* `return code;` : the value is fixed and the locals start to unwind.
Return(f, code) == [f EXCEPT !.ret = code, !.pc = "unwind"]

\* std::lock_guard<std::mutex> guard(mtx) can be constructed: lines 788-789.
LockAlwaysAvailable == TRUE

LockAvailable == mtx = NoThread

\* The positions of process between locking mtx and unlocking it.
InProcess(t) == frame[t].pc # "lock"

\* Lines 788-789: a thread that has called process(m1) takes the mutex.  m is
\* the message the call carries.
Lock(t) ==
  /\ frame[t].pc = "lock"
  /\ LockAvailable
  /\ mtx' = t
  /\ \E m \in Messages :
       frame' = [frame EXCEPT ![t].pc = "exists", ![t].m1 = m, ![t].m1Live = TRUE]
  /\ UNCHANGED <<hist, registry, allocated, badFree, freeCount, dirExists,
                 mounted, dp, sub, lastOp, regCount, log, remap>>

\* A step of process that touches nothing but its own frame.
FrameStep(t, f) ==
  /\ frame' = [frame EXCEPT ![t] = f]
  /\ UNCHANGED <<mtx, hist, registry, allocated, badFree, freeCount,
                 dirExists, mounted, dp, sub, lastOp, regCount, log, remap>>

\* Lines 792-797: the command script must exist.
CheckScript(t) ==
  /\ frame[t].pc = "exists"
  /\ \E exists \in BOOLEAN :
       FrameStep(t, IF exists THEN [frame[t] EXCEPT !.pc = "chmod"]
                    ELSE Return(frame[t], "FAIL"))

\* Lines 813-818: chmod of the script.
Chmod(t) ==
  /\ frame[t].pc = "chmod"
  /\ \E res \in {0, 1} :
       FrameStep(t, IF res = 0 THEN [frame[t] EXCEPT !.pc = "workdir"]
                    ELSE Return(frame[t], "FAIL"))

\* Lines 823-840: BartWorkingDirectory_path must not be empty; then the
\* name outputFolderPath of this invocation's directory is made up from the
\* time, a random number and the thread.  A directory of that name may be
\* there already (pre).
CheckWorkDir(t) ==
  /\ frame[t].pc = "workdir"
  /\ \E empty \in BOOLEAN, pre \in BOOLEAN :
       IF empty
       THEN /\ ~pre
            /\ frame' = [frame EXCEPT ![t] = Return(frame[t], "FAIL")]
            /\ UNCHANGED dirExists
       ELSE /\ frame' = [frame EXCEPT ![t].pc = "mkdir"]
            /\ dirExists' = [dirExists EXCEPT ![t] = pre]
  /\ UNCHANGED <<mtx, hist, registry, allocated, badFree, freeCount,
                 mounted, dp, sub, lastOp, regCount, log, remap>>

\* A failing create_directories that process ignores.
MkdirFailedContinue(f) == [f EXCEPT !.pc = "guard"]

\* Lines 847-850: create_directories failed.
MkdirFailed(f) == Return(f, "FAIL")

\* Lines 842-851: create the workspace directory unless it is there.
MakeDir(t) ==
  /\ frame[t].pc = "mkdir"
  /\ IF dirExists[t]
     THEN /\ frame' = [frame EXCEPT ![t].pc = "guard"]
          /\ UNCHANGED <<dirExists, hist>>
     ELSE \E ok \in BOOLEAN :
            IF ok
            THEN /\ dirExists' = [dirExists EXCEPT ![t] = TRUE]
                 /\ frame' = [frame EXCEPT ![t].pc = "guard"]
                 /\ UNCHANGED hist
            ELSE /\ frame' = [frame EXCEPT ![t] = MkdirFailed(frame[t])]
                 /\ hist' = [hist EXCEPT ![t].mkdirFailed = TRUE]
                 /\ UNCHANGED dirExists
  /\ UNCHANGED <<mtx, registry, allocated, badFree, freeCount,
                 mounted, dp, sub, lastOp, regCount, log, remap>>

\* What ScopeGuard's constructor (line 491) leaves in is_active_.  It
\* initialises p_ only, so the member holds an indeterminate value.
ScopeGuardCtor == "indeterminate"

\* The values a read of the member may yield.
ReadFlag(v) == IF v = "indeterminate" THEN {"true", "false"} ELSE {v}

\* Line 855: internal::ScopeGuard cleanup_guard(outputFolderPath).
MakeGuard(t) ==
  /\ frame[t].pc = "guard"
  /\ FrameStep(t, [frame[t] EXCEPT !.pc = "mount", !.guard = TRUE,
                                   !.is_active_ = ScopeGuardCtor])

\* A mount that is requested whether or not the files are being stored.
MountRequestedWhenCached(exists, cached, st) == exists /\ cached

\* Line 858: the condition under which the mount is requested.
MountRequested(exists, cached, st) == exists /\ cached /\ ~st

\* Lines 858-865: the optional tmpfs mount.  isBartFileBeingStored is read
\* here for the first time; the same value is read again at line 990.
Mount(t) ==
  /\ frame[t].pc = "mount"
  /\ \E st \in BOOLEAN, cached \in BOOLEAN, sys \in {0, 1} :
       IF MountRequested(dirExists[t], cached, st)
       THEN /\ mounted' = [mounted EXCEPT ![t] = (sys = 0)]
            /\ hist' = [hist EXCEPT ![t].cached = cached,
                          ![t].mount = IF sys = 0 THEN "ok" ELSE "failed"]
            /\ frame' = [frame EXCEPT ![t] =
                 IF sys = 0 THEN [frame[t] EXCEPT !.pc = "loop", !.store = st]
                 ELSE Return([frame[t] EXCEPT !.store = st], "FAIL")]
       ELSE /\ sys = 0
            /\ UNCHANGED <<mounted, hist>>
            /\ frame' = [frame EXCEPT ![t].pc = "loop", ![t].store = st]
  /\ UNCHANGED <<mtx, registry, allocated, badFree, freeCount,
                 dirExists, dp, sub, lastOp, regCount, log, remap>>

\* The arrays the loop variable of line 871 holds in iteration b.  The loop
\* is `for (auto recon_bit : rbit_)`: recon_bit is a copy of the bit, made
\* at the start of the iteration and destroyed at its end, and data /
\* data_ref are references into that copy.
LoopVarData(t, b) == Ptr(t, 3, b)

LoopVarRef(t, b) == Ptr(t, 4, b)

\* Lines 871-904: one iteration of the registration loop, up to and
\* including the two register_mem_cfl_non_managed calls.
RegisterBit(t) ==
  /\ frame[t].pc = "loop"
  /\ LET b     == frame[t].bit + 1
         dref  == frame[t].DIMS_ref \o frame[t].m1[b].ref
         dims  == frame[t].DIMS \o frame[t].m1[b].data
         reg1  == IF dref # dims
                  THEN register_mem_cfl(registry, S_meas_ref, Len(dims), dref,
                                        "borrowed", LoopVarRef(t, b))
                  ELSE registry
         reg2  == register_mem_cfl(reg1, S_meas, Len(dims), dims,
                                   "borrowed", LoopVarData(t, b))
         gone  == (IF dref # dims
                   THEN Displaced(registry, S_meas_ref, Len(dims), dref) ELSE {})
                  \cup Displaced(reg1, S_meas, Len(dims), dims)
         frees == {d[1] : d \in Deallocations(gone)}
     IN  /\ allocated' = (allocated \cup CopyBlocks(t, b)) \ frees
         /\ registry' = reg2
         /\ frame' = [frame EXCEPT ![t].pc = "loopEnd", ![t].DIMS_ref = dref,
                                   ![t].DIMS = dims]
         /\ hist' = [hist EXCEPT ![t].regs = @ + (IF dref # dims THEN 2 ELSE 1)]
  /\ UNCHANGED <<mtx, badFree, freeCount, dirExists, mounted,
                 dp, sub, lastOp, regCount, log, remap>>

\* Line 905: the iteration ends, the copy recon_bit is destroyed.
EndIteration(t) ==
  /\ frame[t].pc = "loopEnd"
  /\ LET b == frame[t].bit + 1
     IN  /\ allocated' = allocated \ CopyBlocks(t, b)
         /\ frame' = [frame EXCEPT ![t].bit = b,
                        ![t].pc = IF b < Len(frame[t].m1) THEN "loop" ELSE "cmd1"]
  /\ UNCHANGED <<mtx, hist, registry, badFree, freeCount, dirExists,
                 mounted, dp, sub, lastOp, regCount, log, remap>>

\* What follows `if (!call_BART(...)) return GADGET_FAIL;` (lines 915, 925,
\* 947, 973): f is the frame before the call, fOk the frame after a
\* successful one, r the engine's return code.
AfterCallContinue(f, fOk, r) == fOk

AfterCall(f, fOk, r) == IF r = 0 THEN fOk ELSE Return(f, "FAIL")

\* call_BART(cmdline), lines 650-695, with the engine's part.  line is the
\* number of the script line the command comes from, 0 for the commands
\* process builds itself.
CallBart(t, cmdline, fOk, line) ==
  \E r \in EngineRets, wrote \in BOOLEAN, shape \in ShapesAt(frame[t].pc) :
    LET argv == argv_of(cmdline)
        n    == hist[t].engineCalls + 1
        e    == Entry(argv[Len(argv)], shape, "malloc", Ptr(t, 5, n))
        adds == r = 0 /\ wrote /\ Accepts(registry, e.name, Len(shape), shape)
        gone == Displaced(registry, e.name, Len(shape), shape)
    IN  /\ (r # 0 => ~wrote)
        /\ registry' = IF adds
                       THEN register_mem_cfl(registry, e.name, Len(shape), shape,
                                             e.own, e.ptr)
                       ELSE registry
        /\ allocated' = IF adds
                        THEN (allocated \cup {e.ptr}) \ {d[1] : d \in Deallocations(gone)}
                        ELSE allocated
        /\ hist' = [hist EXCEPT ![t] =
             [@ EXCEPT !.engineCalls = n,
                       !.calls = Append(@, [at |-> frame[t].pc, line |-> line, ret |-> r]),
                       !.lastArgv = argv,
                       !.lastCmdTokens = Len(tokens(cmdline)),
                       !.lastLine = IF line # 0 THEN line ELSE @,
                       !.failedAt = IF line # 0 /\ r # 0 THEN line ELSE @,
                       !.callsAtFail = IF line # 0 /\ r # 0 THEN n ELSE @,
                       !.produced = IF line # 0 /\ adds THEN @ \cup {e} ELSE @]]
        /\ frame' = [frame EXCEPT ![t] = AfterCall(frame[t], fOk, r)]
        /\ UNCHANGED <<mtx, badFree, freeCount, dirExists, mounted,
                       dp, sub, lastOp, regCount, log, remap>>

\* Lines 911-918: the reference resize.
Cmd1(t) ==
  /\ frame[t].pc = "cmd1"
  /\ LET D == frame[t].DIMS
     IN  IF frame[t].DIMS_ref # D
         THEN CallBart(t, S_resize \o to_string(D[1]) \o <<" ","1"," ">>
                            \o to_string(D[2]) \o <<" ","2"," ">>
                            \o to_string(D[3]) \o S_resize_tail,
                       [frame[t] EXCEPT !.pc = "cmd2"], 0)
         ELSE FrameStep(t, [frame[t] EXCEPT !.pc = "cmd2"])

\* Lines 920-927: the input layout command.
Cmd2(t) ==
  /\ frame[t].pc = "cmd2"
  /\ LET D == frame[t].DIMS
     IN  CallBart(t,
           IF D[5] # 1
           THEN S_reshape \o join(<<to_string(D[1]), to_string(D[2]), to_string(D[3]),
                                    to_string(D[4])>>)
                          \o <<" ","1"," ","1"," ","1"," ">>
                          \o join(<<to_string(D[6]), to_string(D[7]), to_string(D[5])>>)
                          \o S_reshape_tail
           ELSE S_scale,
           [frame[t] EXCEPT !.pc = "open"], 0)

\* Lines 932-933 and 957-961: the script is opened, or cannot be.
OpenScript(t) ==
  /\ frame[t].pc = "open"
  /\ \E s \in ScriptIds \cup {0} :
       FrameStep(t, IF s = 0 THEN Return(frame[t], "FAIL")
                    ELSE [frame[t] EXCEPT !.pc = "script", !.script = s])

\* Line 941: Line.compare(0, 4, "bart") == 0.
StartsWithBart(Line) == Len(Line) >= 4 /\ SubSeq(Line, 1, 4) = S_bart

\* A loop that crops the comment and does not trim.
CroppedNoTrim(raw) == substr(raw, 0, find(raw, "#", 0))

\* Lines 938-940: the line as the loop sees it after cropping and trimming.
Cropped(raw) == trim(substr(raw, 0, find(raw, "#", 0)))

\* Lines 935-956: one turn of the getline loop.
ScriptStep(t) ==
  /\ frame[t].pc = "script"
  /\ LET lines == Scripts[frame[t].script]
         i     == frame[t].lineNo + 1
     IN  IF i > Len(lines)
         THEN FrameStep(t, [frame[t] EXCEPT !.pc = "output"])
         ELSE LET Line == Cropped(lines[i])
              IN  IF Line = <<>> \/ ~StartsWithBart(Line)
                  THEN FrameStep(t, [frame[t] EXCEPT !.lineNo = i])
                  ELSE LET cmd == replace_default_parameters(Line, dp)
                       IN  CallBart(t, cmd,
                                    [frame[t] EXCEPT !.lineNo = i, !.Commands_Line = cmd],
                                    i)

\* What internal::get_output_filename may return for a line without any
\* token: outputFile.back() of an empty vector is undefined, so any string.
GarbageNames == { <<>>, <<"o","u","t">> }

\* internal::get_output_filename, lines 528-544.
get_output_filename(bartCommandLine) ==
  LET toks == tokens(bartCommandLine)
  IN  IF toks # <<>> THEN {toks[Len(toks)]} ELSE GarbageNames

\* What a load_mem_cfl that returned ptr adds to the record of the
\* invocation: the first one that returns null is noted.
Looked(h, ptr) ==
  IF ptr = 0 /\ h.missAt = 0 THEN [h EXCEPT !.missAt = h.engineCalls] ELSE h

\* Lines 963-968: the output name, and its header read from the registry.
\* The pointer load_mem_cfl returns is not looked at.
Output(t) ==
  /\ frame[t].pc = "output"
  /\ \E outputFile \in get_output_filename(frame[t].Commands_Line) :
       LET got == load_mem_cfl(registry, outputFile, MAX_DIMS, Zeros(MAX_DIMS))
       IN  /\ frame' = [frame EXCEPT ![t].pc = "cmd3", ![t].outputFile = outputFile,
                                      ![t].header = got.dims]
           /\ hist' = [hist EXCEPT ![t] = Looked(@, got.ptr)]
  /\ UNCHANGED <<mtx, registry, allocated, badFree, freeCount, dirExists,
                 mounted, dp, sub, lastOp, regCount, log, remap>>

\* Lines 970-975: the output reshape.
Cmd3(t) ==
  /\ frame[t].pc = "cmd3"
  /\ LET header     == frame[t].header
         outputFile == frame[t].outputFile
         cmd3 == S_reshape
                 \o join(<<to_string(header[1]), to_string(header[2]),
                           to_string(header[3]), to_string(header[4]),
                           to_string(header[10] * header[5]),
                           to_string(header[6]), to_string(header[7]),
                           to_string(header[8]), to_string(header[9]), <<"1">>,
                           outputFile, outputFile \o S_reshape_sfx>>)
     IN  CallBart(t, cmd3, [frame[t] EXCEPT !.pc = "load"], 0)

\* Lines 978-984: the reshaped output is fetched from the registry.
Load(t) ==
  /\ frame[t].pc = "load"
  /\ LET got == load_mem_cfl(registry, frame[t].outputFile \o S_reshape_sfx,
                             MAX_DIMS, Zeros(MAX_DIMS))
     IN  /\ frame' = [frame EXCEPT ![t] =
                        IF got.ptr = 0 THEN Return(frame[t], "FAIL")
                        ELSE [frame[t] EXCEPT !.pc = "final", !.data = got.ptr,
                                              !.DIMS_OUT = got.dims]]
         /\ hist' = [hist EXCEPT ![t] = Looked(@, got.ptr)]
  /\ UNCHANGED <<mtx, registry, allocated, badFree, freeCount, dirExists,
                 mounted, dp, sub, lastOp, regCount, log, remap>>

\* ScopeGuard::dismiss, line 500.
dismissNothing(f) == f

dismiss(f) == [f EXCEPT !.is_active_ = "false"]

\* Lines 990-993.  internal::cleanup (lines 507-510) is remove_all of the
\* workspace directory.
FinalCleanup(t) ==
  /\ frame[t].pc = "final"
  /\ IF ~frame[t].store
     THEN /\ dirExists' = [dirExists EXCEPT ![t] = FALSE]
          /\ hist' = [hist EXCEPT ![t].removed = TRUE]
          /\ frame' = [frame EXCEPT ![t].pc = "images"]
     ELSE /\ frame' = [frame EXCEPT ![t] = [dismiss(frame[t]) EXCEPT !.pc = "images"]]
          /\ UNCHANGED <<dirExists, hist>>
  /\ UNCHANGED <<mtx, registry, allocated, badFree, freeCount, mounted,
                 dp, sub, lastOp, regCount, log, remap>>

\* Lines 995-1052: the image array is built from data and sent on.
\* DATA.reshape(data_dims) throws when data_dims has another element count
\* than DIMS_OUT, and the exception leaves process.  header[4] = 0 ends the
\* program at the assert of line 1016 or in the division of line 1017, and
\* more elements in DATA_Final than imarray.data_ holds are written past
\* its end by the copy of line 1045.
Images(t) ==
  /\ frame[t].pc = "images"
  /\ LET dims_out == frame[t].DIMS_OUT
         hdr      == frame[t].header
     IN  IF Product(data_dims(dims_out)) # Product(dims_out)
         THEN FrameStep(t, Return(frame[t], "THROW"))
         ELSE IF hdr[5] = 0
         THEN FrameStep(t, [frame[t] EXCEPT !.pc = "crashed"])
         ELSE LET final  == data_dims_Final(dims_out, hdr)
                  chunks == loc_loop(data_dims(dims_out), hdr[5], 0)
              IN  IF Len(Concat(chunks)) > Product(final)
                  THEN \E next \in {"crashed", "release"} :
                         FrameStep(t, [frame[t] EXCEPT !.pc = next])
                  ELSE FrameStep(t, [frame[t] EXCEPT !.pc = "release"])

\* Lines 1054-1055: m1->release() frees the message, then return GADGET_OK.
Release(t) ==
  /\ frame[t].pc = "release"
  /\ FrameStep(t, Return([frame[t] EXCEPT !.m1Live = FALSE], "OK"))

\* ScopeGuard::~ScopeGuard, lines 492-498, with active the value its read of
\* is_active_ yields: whether it calls cleanup(p_) and whether it calls
\* deallocate_all_mem_cfl().
ScopeGuardDtorFlushIfActive(active) ==
  [removes |-> active = "true", flushes |-> active = "true"]

ScopeGuardDtor(active) == [removes |-> active = "true", flushes |-> TRUE]

\* The locals are destroyed in reverse order: cleanup_guard (if it was
\* constructed) before the lock_guard.
GuardDtor(t) ==
  /\ frame[t].pc = "unwind"
  /\ \E active \in ReadFlag(frame[t].is_active_) :
       LET d     == IF frame[t].guard THEN ScopeGuardDtor(active)
                    ELSE [removes |-> FALSE, flushes |-> FALSE]
           freed == deallocate_all_mem_cfl(registry)
       IN  /\ dirExists' = IF d.removes THEN [dirExists EXCEPT ![t] = FALSE]
                           ELSE dirExists
           /\ registry' = IF d.flushes THEN freed.table ELSE registry
           /\ allocated' = IF d.flushes THEN allocated \ freed.frees ELSE allocated
           /\ badFree' = (badFree \/ (d.flushes /\ ~(freed.frees \subseteq allocated)))
           /\ hist' = [hist EXCEPT ![t].removed = @ \/ d.removes,
                                   ![t].dealloc = @ \/ d.flushes]
  /\ frame' = [frame EXCEPT ![t].pc = "unlock"]
  /\ UNCHANGED <<mtx, freeCount, mounted, dp, sub, lastOp, regCount, log, remap>>

\* The lock_guard is destroyed and process returns frame[t].ret.  The
\* thread goes on to its next call of process, which works in a directory
\* of another name.
Unlock(t) ==
  /\ frame[t].pc = "unlock"
  /\ mtx' = NoThread
  /\ frame' = [frame EXCEPT ![t] = IdleFrame]
  /\ hist' = [hist EXCEPT ![t] = IdleHist]
  /\ dirExists' = [dirExists EXCEPT ![t] = FALSE]
  /\ mounted' = [mounted EXCEPT ![t] = FALSE]
  /\ UNCHANGED <<registry, allocated, badFree, freeCount, dp, sub, lastOp, regCount, log, remap>>

NoRemap ==
  [phase |-> "none", shape |-> <<>>, maps |-> 0, extra |-> 0, layout |-> <<>>,
   hdr |-> <<>>, dims_out |-> <<>>, final |-> <<>>, chunks |-> <<>>,
   outcome |-> "none", idx |-> <<0, 0, 0>>, seen |-> {}, again |-> FALSE]

IdleSub == [phase |-> "none", toks |-> <<>>, line |-> <<>>, out |-> <<>>]

\* The state after construction and process_config: every thread is about
\* to enter process, none holds the mutex, the registry is empty.
Init ==
  /\ mtx = NoThread
  /\ frame = [t \in Threads |-> IdleFrame]
  /\ hist = [t \in Threads |-> IdleHist]
  /\ registry = <<>>
  /\ allocated = {}
  /\ badFree = FALSE
  /\ freeCount = 0
  /\ dirExists = [t \in Threads |-> FALSE]
  /\ mounted = [t \in Threads |-> FALSE]
  /\ dp = DpOf(120)
  /\ sub = IdleSub
  /\ lastOp = "none"
  /\ regCount = 0
  /\ log \in {IdleLog(p) : p \in Policies}
  /\ remap = NoRemap

Next ==
  \E t \in Threads :
    \/ Lock(t)
    \/ CheckScript(t)
    \/ Chmod(t)
    \/ CheckWorkDir(t)
    \/ MakeDir(t)
    \/ MakeGuard(t)
    \/ Mount(t)
    \/ RegisterBit(t)
    \/ EndIteration(t)
    \/ Cmd1(t)
    \/ Cmd2(t)
    \/ OpenScript(t)
    \/ ScriptStep(t)
    \/ Output(t)
    \/ Cmd3(t)
    \/ Load(t)
    \/ FinalCleanup(t)
    \/ Images(t)
    \/ Release(t)
    \/ GuardDtor(t)
    \/ Unlock(t)

Spec == Init /\ [][Next]_vars

\* The steps of an invocation that holds the mutex.  process has no
\* suspension point: a thread inside it takes its next step whenever it has
\* one (every engine invocation returns).
Running(t) ==
  \/ CheckScript(t) \/ Chmod(t) \/ CheckWorkDir(t) \/ MakeDir(t) \/ MakeGuard(t)
  \/ Mount(t) \/ RegisterBit(t) \/ EndIteration(t) \/ Cmd1(t) \/ Cmd2(t)
  \/ OpenScript(t) \/ ScriptStep(t) \/ Output(t) \/ Cmd3(t) \/ Load(t)
  \/ FinalCleanup(t) \/ Images(t) \/ Release(t) \/ GuardDtor(t) \/ Unlock(t)

\* Thread t is inside process and has a next step: every position but the
\* entry (where it waits for the mutex) and the one after the program has
\* stopped.
CanRun(t) == frame[t].pc \notin {"lock", "crashed"}

\* Fair scheduling: a running invocation goes on (weak fairness of
\* Running(t), whose enabling condition is CanRun(t)), and a thread that
\* finds the mutex free again and again gets it at some time.
FairSpec ==
  /\ Init /\ [][Next]_vars
  /\ \A t \in Threads :
       /\ ([]<>(~CanRun(t)) \/ []<><<Running(t)>>_vars)
       /\ SF_vars(Lock(t))

\* ------------------------------------- replace_default_parameters alone
\* The tokens a command line is made of after "bart".
T_in == <<"i","n">>
T_fovx == <<"$","F","O","V","_","x">>
T_rmx == <<"$","r","e","c","o","n","_","m","a","t","r","i","x","_","x">>
T_rl2 == <<"$","r","e","f","e","r","e","n","c","e","_","l","i","n","e","s","_","P","E","2">>
T_unknown == <<"$","u","n","k","n","o","w","n">>

SubstTokens == {T_in, T_fovx, T_rmx, T_rl2, T_unknown}

SubstInputs == UNION { [1..n -> SubstTokens] : n \in 1..MaxTok }

\* A line "bart tok1 ... tokn" and an assignment of the ten parameters.
SubInit ==
  /\ mtx = NoThread
  /\ frame = [t \in Threads |-> IdleFrame]
  /\ hist = [t \in Threads |-> IdleHist]
  /\ registry = <<>>
  /\ allocated = {}
  /\ badFree = FALSE
  /\ freeCount = 0
  /\ dirExists = [t \in Threads |-> FALSE]
  /\ mounted = [t \in Threads |-> FALSE]
  /\ dp \in {DpOf(b) : b \in DpBases}
  /\ \E toks \in SubstInputs :
       sub = [phase |-> "in", toks |-> toks, line |-> S_bart \o SP \o join(toks),
              out |-> <<>>]
  /\ lastOp = "none"
  /\ regCount = 0
  /\ log \in {IdleLog(p) : p \in Policies}
  /\ remap = NoRemap

\* Line 944: replace_default_parameters(Line).
Substitute ==
  /\ sub.phase = "in"
  /\ sub' = [sub EXCEPT !.phase = "out",
                        !.out = replace_default_parameters(sub.line, dp)]
  /\ UNCHANGED <<mtx, frame, hist, registry, allocated, badFree, freeCount,
                 dirExists, mounted, dp, lastOp, regCount, log, remap>>

SubNext == Substitute

SpecSubst == SubInit /\ [][SubNext]_vars

\* ------------------------------------------------------- registry alone
RegNames == { <<"a">>, <<"b">> }

RegShapes == { <<2, 3>>, <<4>> }

\* The register_* calls made: every name, shape and tag, and two calls the
\* registry must refuse, one with an axis count of MAX_DIMS + 1 and one
\* with a negative dimension.
RegCalls ==
  { [name |-> n, D |-> Len(sh), dims |-> sh, own |-> o] :
      n \in RegNames, sh \in RegShapes, o \in {"malloc", "new", "borrowed"} }
  \cup { [name |-> <<"a">>, D |-> MAX_DIMS + 1, dims |-> [i \in 1..(MAX_DIMS + 1) |-> 1],
          own |-> "malloc"],
         [name |-> <<"b">>, D |-> 2, dims |-> <<2, -1>>, own |-> "new"] }

\* The names looked up: the registered ones and one that never is.
LookNames == RegNames \cup { <<"c">> }

\* The call passes more than MAX_DIMS axes or a negative dimension.
Malformed(D, dims) ==
  D > MAX_DIMS \/ \E i \in 1..Min2(D, Len(dims)) : dims[i] < 0

\* What the caller's dimensions array holds before a lookup.
Stale == [i \in 1..MAX_DIMS |-> 7]

\* register_mem_cfl_malloc / _new / _non_managed on a block the caller has
\* just allocated.
RegRegister ==
  /\ regCount < MaxRegs
  /\ \E c \in RegCalls :
       LET ptr  == regCount + 1
           ok   == Accepts(registry, c.name, c.D, c.dims)
           ev   == Deallocations(Displaced(registry, c.name, c.D, c.dims))
           gone == {d[1] : d \in ev}
       IN  /\ registry' = register_mem_cfl(registry, c.name, c.D, c.dims, c.own, ptr)
           /\ allocated' = (allocated \cup {ptr}) \ gone
           /\ badFree' = (badFree \/ ~(gone \subseteq allocated))
           /\ freeCount' = freeCount + Cardinality(ev)
           /\ log' = [log EXCEPT
                        !.calls = Append(@, [name |-> c.name, own |-> c.own, ok |-> ok,
                                             bad |-> Malformed(c.D, c.dims)]),
                        !.events = @ \cup ev]
  /\ regCount' = regCount + 1
  /\ lastOp' = "register"
  /\ UNCHANGED <<mtx, frame, hist, dirExists, mounted, dp, sub, remap>>

\* deallocate_all_mem_cfl().
RegRelease ==
  /\ LET freed == deallocate_all_mem_cfl(registry)
         ev    == Deallocations({e \in Range(registry) : e.ptr \in freed.frees})
     IN  /\ registry' = freed.table
         /\ allocated' = allocated \ freed.frees
         /\ badFree' = (badFree \/ ~(freed.frees \subseteq allocated))
         /\ freeCount' = freeCount + Cardinality(freed.frees)
         /\ log' = [log EXCEPT !.events = @ \cup ev, !.flushed = Len(log.calls)]
  /\ lastOp' = IF lastOp \in {"release", "release_again"} THEN "release_again"
               ELSE "release"
  /\ UNCHANGED <<mtx, frame, hist, dirExists, mounted, dp, sub, regCount, remap>>

\* load_mem_cfl(name, MAX_DIMS, dimensions).
RegLookup ==
  /\ \E name \in LookNames :
       LET r == load_mem_cfl(registry, name, MAX_DIMS, Stale)
       IN  log' = [log EXCEPT !.look = [name |-> name, ptr |-> r.ptr, dims |-> r.dims]]
  /\ lastOp' = "lookup"
  /\ UNCHANGED <<mtx, frame, hist, registry, allocated, badFree, freeCount,
                 dirExists, mounted, dp, sub, regCount, remap>>

RegNext == RegRegister \/ RegRelease \/ RegLookup

SpecReg == Init /\ [][RegNext]_vars

\* ---------------------------------------------- one pass of a shape
\* A pipeline shape, the number of maps the script produces per repetition,
\* and what the engine adds to the composite axis cmd3 asks for (the engine
\* is opaque: it may leave an output of another length).
RemapInit ==
  /\ mtx = NoThread
  /\ frame = [t \in Threads |-> IdleFrame]
  /\ hist = [t \in Threads |-> IdleHist]
  /\ registry = <<>>
  /\ allocated = {}
  /\ badFree = FALSE
  /\ freeCount = 0
  /\ dirExists = [t \in Threads |-> FALSE]
  /\ mounted = [t \in Threads |-> FALSE]
  /\ dp = DpOf(120)
  /\ sub = IdleSub
  /\ lastOp = "none"
  /\ regCount = 0
  /\ log = IdleLog("fail")
  /\ \E shape \in PipeShapes, maps \in 0..MaxMaps, extra \in {0, 1} :
       remap = [NoRemap EXCEPT !.phase = "shape", !.shape = shape, !.maps = maps,
                               !.extra = extra]

RemapStep(r) ==
  /\ remap' = r
  /\ UNCHANGED <<mtx, frame, hist, registry, allocated, badFree, freeCount,
                 dirExists, mounted, dp, sub, lastOp, regCount, log>>

\* Lines 920-927: cmd2 gives input_data its layout.
ToEngine ==
  /\ remap.phase = "shape"
  /\ RemapStep([remap EXCEPT !.phase = "layout", !.layout = to_engine_dims(remap.shape)])

\* Lines 935-956: the script leaves an output laid out like input_data, with
\* remap.maps solutions on the maps axis.
EngineRun ==
  /\ remap.phase = "layout"
  /\ RemapStep([remap EXCEPT !.phase = "header",
                             !.hdr = EngineDims([remap.layout EXCEPT ![5] = remap.maps])])

\* Lines 963-979: header is read, cmd3 reshapes the output, DIMS_OUT is read.
FromEngine ==
  /\ remap.phase = "header"
  /\ RemapStep([remap EXCEPT !.phase = "out",
        !.dims_out = EngineDims([cmd3_dims(remap.hdr) EXCEPT ![5] = @ + remap.extra])])

\* Lines 999-1020.  DATA has the Product(DIMS_OUT) elements of the output;
\* DATA.reshape(data_dims) throws when data_dims has another element count.
\* header[4] = 0 stops at the assert of line 1016 when asserts are compiled
\* in, and is a division by zero on line 1017 when they are not.
FinalDims ==
  /\ remap.phase = "out"
  /\ IF Product(data_dims(remap.dims_out)) # Product(remap.dims_out)
     THEN RemapStep([remap EXCEPT !.phase = "done", !.outcome = "throw"])
     ELSE IF remap.hdr[5] = 0
     THEN \E o \in {"abort", "undefined"} :
            RemapStep([remap EXCEPT !.phase = "done", !.outcome = o])
     ELSE RemapStep([remap EXCEPT !.phase = "final",
                       !.final = data_dims_Final(remap.dims_out, remap.hdr)])

\* Lines 1022-1045: the chunks are collected in DATA_Final and copied into
\* imarray.data_, which has Product(data_dims_Final) elements.
Split ==
  /\ remap.phase = "final"
  /\ LET chunks == loc_loop(data_dims(remap.dims_out), remap.hdr[5], 0)
     IN  RemapStep([remap EXCEPT !.phase = "done", !.chunks = chunks,
                      !.outcome = IF Len(Concat(chunks)) > Product(remap.final)
                                  THEN "overflow" ELSE "ok"])

RemapNext == ToEngine \/ EngineRun \/ FromEngine \/ FinalDims \/ Split

SpecRemap == RemapInit /\ [][RemapNext]_vars

\* ------------------------------------------- the splitting loops alone
\* The shapes data_dims and the numbers of maps header[4] the loops of
\* lines 1025-1043 are run on: short axes with few maps, and a repetition
\* axis of 2^16 entries with 2^15 maps.
LoopInputs ==
  { [dd |-> <<1, 1, 1, 1, n, st, loc>>, maps |-> m] :
      n \in 1..MaxRep, st \in {1, 2}, loc \in {1, 2}, m \in 1..MaxMaps }
  \cup { [dd |-> <<1, 1, 1, 1, UINT16, 1, 1>>, maps |-> UINT16 \div 2] }

\* The loops are entered: loc = 0, s = 0, n = 0.
LoopInit ==
  /\ mtx = NoThread
  /\ frame = [t \in Threads |-> IdleFrame]
  /\ hist = [t \in Threads |-> IdleHist]
  /\ registry = <<>>
  /\ allocated = {}
  /\ badFree = FALSE
  /\ freeCount = 0
  /\ dirExists = [t \in Threads |-> FALSE]
  /\ mounted = [t \in Threads |-> FALSE]
  /\ dp = DpOf(120)
  /\ sub = IdleSub
  /\ lastOp = "none"
  /\ regCount = 0
  /\ log = IdleLog("fail")
  /\ \E in \in LoopInputs :
       remap = [NoRemap EXCEPT !.phase = "loops",
                               !.dims_out = EngineDims(in.dd),
                               !.hdr = EngineDims([in.dd EXCEPT ![5] = in.maps])]

\* Lines 1027-1041: n < data_dims[4]; the body runs for (loc, s, n), then
\* n += header[4].
LoopVisit ==
  /\ remap.phase = "loops"
  /\ LET dd == data_dims(remap.dims_out)
         loc == remap.idx[1]
         st == remap.idx[2]
         n == remap.idx[3]
     IN  /\ loc < dd[7] /\ st < dd[6] /\ n < dd[5]
         /\ RemapStep([remap EXCEPT !.idx = <<loc, st, Step(n, remap.hdr[5])>>,
                                    !.seen = @ \cup {remap.idx},
                                    !.again = @ \/ remap.idx \in remap.seen])

\* Line 1026: the n loop has ended; ++s, and the n loop starts again at 0.
LoopNextSet ==
  /\ remap.phase = "loops"
  /\ LET dd == data_dims(remap.dims_out)
         loc == remap.idx[1]
         st == remap.idx[2]
         n == remap.idx[3]
     IN  /\ loc < dd[7] /\ st < dd[6] /\ ~(n < dd[5])
         /\ RemapStep([remap EXCEPT !.idx = <<loc, (st + 1) % UINT16, 0>>])

\* Line 1025: the s loop has ended; ++loc, and the s loop starts again at 0.
LoopNextLoc ==
  /\ remap.phase = "loops"
  /\ LET dd == data_dims(remap.dims_out)
         loc == remap.idx[1]
         st == remap.idx[2]
     IN  /\ loc < dd[7] /\ ~(st < dd[6])
         /\ RemapStep([remap EXCEPT !.idx = <<(loc + 1) % UINT16, 0, 0>>])

\* Line 1043: the loc loop has ended.
LoopExit ==
  /\ remap.phase = "loops"
  /\ ~(remap.idx[1] < data_dims(remap.dims_out)[7])
  /\ RemapStep([remap EXCEPT !.phase = "done"])

LoopNext == LoopVisit \/ LoopNextSet \/ LoopNextLoc \/ LoopExit

SpecLoop == LoopInit /\ [][LoopNext]_vars

\* ------------------------------ the registration loop and cmd1 alone
\* Messages of 1..MaxBits reconstruction bits of one data shape, each bit
\* with or without a reference scan of its own.
MixedMessages ==
  UNION { [1..n -> Bits(d)] : d \in DataShapes, n \in 1..MaxBits }

\* Thread 1 is in process, in front of the loop of line 871: it holds the
\* mutex, its workspace directory exists, its scope guard is built.
BitsInit ==
  /\ mtx = 1
  /\ \E m \in MixedMessages :
       frame = [t \in Threads |->
                  IF t = 1
                  THEN [IdleFrame EXCEPT !.pc = "loop", !.m1 = m, !.m1Live = TRUE,
                                         !.guard = TRUE, !.is_active_ = ScopeGuardCtor]
                  ELSE IdleFrame]
  /\ hist = [t \in Threads |-> IdleHist]
  /\ registry = <<>>
  /\ allocated = {}
  /\ badFree = FALSE
  /\ freeCount = 0
  /\ dirExists = [t \in Threads |-> t = 1]
  /\ mounted = [t \in Threads |-> FALSE]
  /\ dp = DpOf(120)
  /\ sub = IdleSub
  /\ lastOp = "none"
  /\ regCount = 0
  /\ log \in {IdleLog(p) : p \in Policies}
  /\ remap = NoRemap

\* Lines 871-918.
BitsNext == \E t \in Threads : RegisterBit(t) \/ EndIteration(t) \/ Cmd1(t)

SpecBits == BitsInit /\ [][BitsNext]_vars

\* ================================================================ claims

\* C1: every invocation that got its workspace directory and does not
\* retain it (isBartFileBeingStored false) has removed the directory by the
\* time process returns, on every exit path.
C1_WorkspaceRemovedOnReturn ==
  \A t \in Threads :
    (frame[t].pc = "unlock" /\ frame[t].guard /\ ~frame[t].store) => ~dirExists[t]

C3_ReleaseOnEveryReturn ==
  \A t \in Threads : frame[t].pc = "unlock" => hist[t].dealloc

\* C3 as amended: an invocation has called deallocate_all_mem_cfl by the
\* time it returns exactly when it got as far as constructing its scope
\* guard (line 855); the returns taken before that do not call it.
C3_ReleaseIffGuarded ==
  \A t \in Threads :
    frame[t].pc = "unlock" => (hist[t].dealloc <=> frame[t].guard)

C3_Witness ==
  \E t \in Threads :
    /\ frame[t].pc = "unlock" /\ frame[t].guard /\ frame[t].ret = "FAIL"
    /\ hist[t].dealloc /\ ~hist[t].removed

\* C4: at most one invocation at a time is between acquiring the mutex and
\* returning, and that invocation is the owner of the mutex.
C4_MutualExclusion ==
  \A t \in Threads :
    InProcess(t) => (mtx = t /\ \A u \in Threads \ {t} : ~InProcess(u))

C4_Witness ==
  \E t \in Threads :
    /\ frame[t].pc = "script" /\ hist[t].engineCalls > 0
    /\ \E u \in Threads \ {t} : frame[u].pc = "lock"

\* C5: once the engine has failed on script line i, process returns failure,
\* line i stays the last line handed to the engine, no further engine
\* invocation is made, and until the scope guard's destructor runs the
\* entries produced by the earlier lines are still in the registry, their
\* memory allocated.
C5_FailFast ==
  \A t \in Threads :
    hist[t].failedAt # 0 =>
      /\ frame[t].pc \in {"unwind", "unlock"}
      /\ frame[t].ret = "FAIL"
      /\ hist[t].lastLine = hist[t].failedAt
      /\ hist[t].engineCalls = hist[t].callsAtFail
      /\ frame[t].pc = "unwind" =>
           \A e \in hist[t].produced : e \in Range(registry) /\ e.ptr \in Allocated

C5_Witness ==
  \E t \in Threads :
    /\ frame[t].pc = "unwind" /\ hist[t].failedAt > 1
    /\ hist[t].produced # {}

\* The argument vector holds a `$token` whose name is no known parameter.
HasUnknownToken(argv) ==
  \E i \in DOMAIN argv :
    argv[i] # <<>> /\ argv[i][1] = "$" /\ ~IsParam(Tail(argv[i]))

\* C6: the engine is never invoked with a line that still holds a `$token`
\* whose name is not one of the ten known parameters.
C6_NoUnknownTokenReachesEngine ==
  \A t \in Threads : ~HasUnknownToken(hist[t].lastArgv)

\* The token-wise substitution the claim describes.
ExpectedToken(tok, params) ==
  IF tok # <<>> /\ tok[1] = "$" /\ IsParam(Tail(tok))
  THEN to_string(params[ParamId(Tail(tok))])
  ELSE tok

ExpectedLine(toks, params) ==
  S_bart \o SP \o join([i \in DOMAIN toks |-> ExpectedToken(toks[i], params)])

\* C7: substitution replaces every whitespace-delimited `$name` token that
\* names a known parameter by the decimal string of its value and leaves
\* every other character unchanged, also with several tokens on a line.
C7_SubstitutesEveryToken ==
  sub.phase = "out" => sub.out = ExpectedLine(sub.toks, dp)

\* C8: no engine invocation is made for a command line of more than
\* MAX_ARGS tokens (the engine is not invoked with a shortened vector).
C8_TooManyArgumentsIsFatal ==
  \A t \in Threads : hist[t].lastCmdTokens <= MAX_ARGS

\* C9: the memory a Borrowed entry refers to is allocated for as long as
\* the entry is in the registry.
C9_BorrowedMemoryLive ==
  \A i \in DOMAIN registry :
    registry[i].own = "borrowed" => registry[i].ptr \in Allocated

\* C10: a release that follows a release, and a release of an empty
\* registry, change nothing and free nothing; no block is freed twice.
C10_ReleaseIdempotent ==
  [][ ( \/ lastOp' = "release_again"
        \/ (lastOp' \in {"release", "release_again"} /\ regCount' = regCount
            /\ registry = <<>>) )
      => ( /\ registry' = registry /\ registry' = <<>>
           /\ allocated' = allocated
           /\ freeCount' = freeCount
           /\ badFree' = FALSE ) ]_vars

C10_Witness ==
  lastOp = "release_again" /\ regCount > 1 /\ freeCount > 0 /\ registry = <<>>

\* ---------------------------------------------------- registry claims
\* Registry alone: block p is the pointer of the p-th register_* call.
Live(p) == \E i \in DOMAIN registry : registry[i].ptr = p

EventsOf(p) == {d \in log.events : d[1] = p}

\* C11: a block registered as malloc'd that has left the table was freed
\* exactly once and with free, one registered as new[]'d exactly once and
\* with delete[]; a block with a live entry, a borrowed block and a block
\* whose registration was refused have never been freed by the registry.
C11_FreedOnceByTag ==
  /\ ~badFree
  /\ freeCount = Cardinality(log.events)
  /\ \A p \in DOMAIN log.calls :
       LET c == log.calls[p]
       IN  IF c.ok /\ c.own # "borrowed" /\ ~Live(p)
           THEN /\ EventsOf(p) = {<<p, IF c.own = "malloc" THEN "free" ELSE "delete[]">>}
                /\ p \notin allocated
           ELSE EventsOf(p) = {} /\ p \in allocated

C11_Witness ==
  \E p, q, r \in DOMAIN log.calls :
    /\ log.calls[p].own = "malloc" /\ log.calls[p].ok /\ <<p, "free">> \in log.events
    /\ log.calls[q].own = "new" /\ log.calls[q].ok /\ <<q, "delete[]">> \in log.events
    /\ log.calls[r].own = "borrowed" /\ log.calls[r].ok /\ ~Live(r)

\* The shape as a lookup with capacity MAX_DIMS reports it.
Padded(dims) == dims \o Zeros(MAX_DIMS - Len(dims))

\* The latest register_* call that created an entry under name was call p.
LatestUnder(name, p) ==
  /\ log.calls[p].name = name /\ log.calls[p].ok
  /\ \A q \in DOMAIN log.calls :
       (q > p /\ log.calls[q].name = name) => ~log.calls[q].ok

\* C12: a lookup, with capacity MAX_DIMS, of a name that has been registered
\* returns the data pointer given to the latest registration made under that
\* name, and the caller's array holds the registered shape followed by zeros.
C12_LookupReturnsRegistered ==
  (lastOp = "lookup" /\ Found(registry, log.look.name)) =>
    \E i \in DOMAIN registry :
      /\ registry[i].name = log.look.name
      /\ log.look.ptr = registry[i].ptr
      /\ LatestUnder(log.look.name, registry[i].ptr)
      /\ log.look.dims = Padded(registry[i].dims)

C12_Witness ==
  /\ lastOp = "lookup" /\ log.look.ptr > 0 /\ log.look.ptr = Len(log.calls)
  /\ log.calls[log.look.ptr].own = "new"
  /\ log.look.dims = Padded(<<2, 3>>)

\* Some register_* call made since the latest release created an entry
\* under name.
RegisteredSinceRelease(name) ==
  \E p \in DOMAIN log.calls :
    p > log.flushed /\ log.calls[p].name = name /\ log.calls[p].ok

\* C13: a lookup of a name under which no entry was created since the
\* latest release (never registered, or registered only before it) returns
\* no data: the null pointer.
C13_LookupNotFound ==
  (lastOp = "lookup" /\ ~RegisteredSinceRelease(log.look.name)) => log.look.ptr = 0

C13_Witness ==
  /\ lastOp = "lookup" /\ log.look.ptr = 0
  /\ log.flushed > 0
  /\ \E p \in 1..log.flushed :
       /\ log.calls[p].name = log.look.name /\ log.calls[p].ok
       /\ log.calls[p].own = "borrowed"

\* C16: a register_* call with more than MAX_DIMS axes or with a negative
\* dimension creates no entry, and the registry never frees the block passed
\* with it.
C16_MalformedShapeRefused ==
  \A p \in DOMAIN log.calls :
    log.calls[p].bad =>
      /\ ~log.calls[p].ok
      /\ ~Live(p)
      /\ EventsOf(p) = {}
      /\ p \in allocated

C16_Witness ==
  \E p, q \in DOMAIN log.calls :
    /\ log.calls[p].bad /\ log.calls[p].own = "malloc"
    /\ log.calls[q].bad /\ log.calls[q].own = "new"
    /\ log.flushed >= p /\ log.flushed >= q

\* ----------------------------------------------- registration claims
\* C14: no two entries of the registry have the same name, in every state:
\* while process registers meas_gadgetron (and meas_gadgetron_ref) for each
\* reconstruction bit of a message with several bits, and from one
\* invocation to the next.
C14_NamesUnique ==
  \A i, j \in DOMAIN registry :
    i # j => registry[i].name # registry[j].name

C14_Witness ==
  \E t \in Threads :
    /\ frame[t].pc = "loopEnd" /\ frame[t].bit >= 1
    /\ Found(registry, S_meas) /\ Found(registry, S_meas_ref)

\* The axis count process passes to register_mem_cfl_non_managed in the
\* iteration it has just made (DIMS.size(), lines 900 and 904), and the two
\* dimension arrays it passes (&DIMS_ref[0], &DIMS[0]).
IssuedD(t) == Len(frame[t].DIMS)

IssuedArrays(t) == {frame[t].DIMS_ref, frame[t].DIMS}

\* C15: every registration process issues passes an axis count of at most
\* MAX_DIMS that is the number of entries of the dimensions array passed.
C15_AxisCountWithinMaximum ==
  \A t \in Threads :
    frame[t].pc = "loopEnd" =>
      /\ IssuedD(t) <= MAX_DIMS
      /\ \A a \in IssuedArrays(t) : IssuedD(t) = Len(a)

\* ------------------------------------------------------ layout claims
\* C17: with one map per repetition and an engine that leaves what it is
\* asked for, a pipeline shape [E0,E1,E2,CHA,N,S,LOC] taken through the
\* to-engine layout and back comes out as the same seven lengths.
C17_RoundTrip ==
  (remap.phase = "done" /\ remap.maps = 1 /\ remap.extra = 0)
    => remap.final = remap.shape

\* The split has run: the loops of lines 1025-1043 were reached.
SplitRan == remap.phase = "done" /\ remap.outcome \in {"ok", "overflow"}

\* The elements of the engine's output buffer, in order.
Buffer == [i \in 1..Product(remap.dims_out) |-> i - 1]

\* C18: with one map per repetition, the chunks the split emits, put end to
\* end in the order emitted, are the output buffer, element for element.
C18_SplitKeepsBuffer ==
  (SplitRan /\ remap.hdr[5] = 1)
    => (Concat(remap.chunks) = Buffer /\ remap.outcome = "ok")

C18_Witness ==
  /\ SplitRan /\ remap.hdr[5] = 1
  /\ remap.dims_out[1] = 2 /\ remap.dims_out[5] >= 2
  /\ remap.dims_out[6] = 2 /\ remap.dims_out[7] = 2

\* C19: when the number of maps is zero or does not divide the composite
\* repetition axis, the pass ends in a failure and no chunk is emitted.
C19_BadMapsCountFails ==
  (remap.phase = "done"
     /\ (remap.hdr[5] = 0 \/ remap.dims_out[5] % remap.hdr[5] # 0))
    => (remap.outcome = "fail" /\ remap.chunks = <<>>)

\* C20: when the number of maps m >= 1 divides the composite repetition
\* axis N, the final repetition axis is N/m, the split emits N/m chunks for
\* each (location, set) pair, each of E0*E1*E2*CHA elements, the k-th being
\* the block at repetition index k*m, and what is emitted fills the final
\* array exactly.
C20_FirstOfEachGroup ==
  (SplitRan /\ remap.dims_out[5] % remap.hdr[5] = 0) =>
    LET dd   == data_dims(remap.dims_out)
        m    == remap.hdr[5]
        per  == dd[5] \div m
        size == dd[1] * dd[2] * dd[3] * dd[4]
    IN  /\ remap.final = [dd EXCEPT ![5] = per]
        /\ Len(remap.chunks) = per * dd[6] * dd[7]
        /\ \A loc \in 0..(dd[7] - 1), st \in 0..(dd[6] - 1), k \in 0..(per - 1) :
             remap.chunks[(loc * dd[6] + st) * per + k + 1]
               = [i \in 1..size |-> size * (k * m + dd[5] * (st + dd[6] * loc)) + i - 1]
        /\ Len(Concat(remap.chunks)) = Product(remap.final)
        /\ remap.outcome = "ok"

C20_Witness ==
  /\ SplitRan /\ remap.hdr[5] = 2 /\ remap.dims_out[5] = 4
  /\ remap.final[5] = 2 /\ Len(remap.chunks) = 2
  /\ remap.dims_out[1] = 2 /\ remap.dims_out[4] = 2

\* ---------------------------------------------------- workspace claims
\* C21: an invocation whose workspace directory could not be created
\* returns failure at once: it has registered no buffer, has made no
\* engine invocation, has built no scope guard and has requested no mount.
C21_MkdirFailureIsFatal ==
  \A t \in Threads :
    hist[t].mkdirFailed =>
      /\ frame[t].pc \in {"unwind", "unlock"}
      /\ frame[t].ret = "FAIL"
      /\ hist[t].regs = 0
      /\ hist[t].engineCalls = 0
      /\ ~frame[t].guard
      /\ hist[t].mount = "none"

C21_Witness ==
  \E t \in Threads :
    frame[t].pc = "unlock" /\ hist[t].mkdirFailed /\ ~dirExists[t]

\* C24: the mount is requested only when caching to memory is configured
\* and the files are not being stored; an invocation whose mount request
\* failed returns failure, has registered no buffer and has made no engine
\* invocation.
C24_MountOnlyWhenConfigured ==
  \A t \in Threads :
    /\ hist[t].mount # "none" => (hist[t].cached /\ ~frame[t].store)
    /\ hist[t].mount = "failed" =>
         /\ frame[t].pc \in {"unwind", "unlock"}
         /\ frame[t].ret = "FAIL"
         /\ hist[t].regs = 0
         /\ hist[t].engineCalls = 0
         /\ ~mounted[t]

C24_Witness ==
  \E t, u \in Threads :
    /\ frame[t].pc = "unlock" /\ hist[t].mount = "failed"
    /\ frame[u].pc = "lock"

\* C29: when process returns, on any exit path, no tmpfs is mounted over
\* the workspace directory of the invocation.
C29_MountGoneOnReturn ==
  \A t \in Threads : frame[t].pc = "unlock" => ~mounted[t]

\* ------------------------------------------------------- script claims
\* The text of a script line in front of its first `#`.
BeforeHash(raw) ==
  IF \E i \in 1..Len(raw) : raw[i] = "#"
  THEN SubSeq(raw, 1, (CHOOSE i \in 1..Len(raw) :
                         raw[i] = "#" /\ \A j \in 1..(i - 1) : raw[j] # "#") - 1)
  ELSE raw

\* Position i of str holds no whitespace.
Inked(str, i) == str[i] \notin {" ", "\t"}

\* str without the whitespace around it.
Surrounded(str) ==
  IF \E i \in 1..Len(str) : Inked(str, i)
  THEN SubSeq(str,
              CHOOSE i \in 1..Len(str) :
                Inked(str, i) /\ \A j \in 1..(i - 1) : ~Inked(str, j),
              CHOOSE i \in 1..Len(str) :
                Inked(str, i) /\ \A j \in (i + 1)..Len(str) : ~Inked(str, j))
  ELSE <<>>

\* The line is one the script runner hands to the engine.
IsCommandLine(raw) ==
  LET l == Surrounded(BeforeHash(raw))
  IN  Len(l) >= 4 /\ \A i \in 1..4 : l[i] = S_bart[i]

\* Per script, the numbers of its lines that are command lines.
CommandLines ==
  [s \in ScriptIds |-> {i \in DOMAIN Scripts[s] : IsCommandLine(Scripts[s][i])}]

\* The last whitespace-delimited token of a string that ends in one.
LastWord(str) ==
  LET hi == Len(str)
      lo == CHOOSE i \in 1..hi :
              /\ \A k \in i..hi : Inked(str, k)
              /\ i = 1 \/ ~Inked(str, i - 1)
  IN  SubSeq(str, lo, hi)

\* The script lines an engine invocation was made for.
Ran(t) == {c.line : c \in {x \in Range(hist[t].calls) : x.line # 0}}

\* C22: once the script has run and at least one of its lines was executed,
\* the output buffer name is the last whitespace-delimited token of the
\* substituted form of the last line executed.
C22_OutputNameIsLastToken ==
  \A t \in Threads :
    (frame[t].pc \in {"cmd3", "load"} /\ hist[t].lastLine # 0) =>
      frame[t].outputFile =
        LastWord(replace_default_parameters(
                   Surrounded(BeforeHash(Scripts[frame[t].script][hist[t].lastLine])), dp))

\* C23: an engine invocation is made for a script line exactly when the
\* line, cut at its first `#` and stripped of the whitespace around it,
\* begins with `bart`; it is made once, and every other line the loop has
\* passed was skipped.
C23_CommandLinesOnly ==
  \A t \in Threads :
    frame[t].script # 0 =>
      LET cmds == CommandLines[frame[t].script]
      IN  /\ Ran(t) \subseteq cmds
          /\ \A i \in 1..frame[t].lineNo : i \in cmds => i \in Ran(t)
          /\ \A i, j \in DOMAIN hist[t].calls :
                (i < j /\ hist[t].calls[i].line # 0 /\ hist[t].calls[j].line # 0)
                  => hist[t].calls[i].line < hist[t].calls[j].line

C23_Witness ==
  \E t \in Threads :
    /\ frame[t].pc = "output" /\ frame[t].script = 2
    /\ Ran(t) = {2, 4} /\ frame[t].lineNo = 4

\* --------------------------------------------------- invocation claims
\* The positions of process at which the next step is a registry operation
\* (register, lookup, an engine invocation, the guard's flush) or creates
\* or removes the workspace directory.
SharedSteps ==
  {"mkdir", "loop", "cmd1", "cmd2", "script", "output", "cmd3", "load", "final",
   "unwind"}

\* C25: every step of an invocation that operates on the registry or on
\* the workspace directory is taken by the thread that holds the mutex and
\* leaves it holding the mutex, the registry and the directories change in
\* no other step, and when the mutex is released the scope guard, if one
\* was built, has made its flush.
C25_SharedStateUnderLock ==
  [][ /\ \A t \in Threads :
           /\ (frame[t].pc \in SharedSteps /\ frame'[t] # frame[t])
                => (mtx = t /\ mtx' = t)
           /\ (mtx = t /\ mtx' # t)
                => (frame[t].pc = "unlock" /\ (frame[t].guard => hist[t].dealloc))
      /\ (registry' # registry \/ dirExists' # dirExists)
           => \E t \in Threads : mtx = t /\ frame'[t] # frame[t] ]_vars

C25_Witness ==
  \E t, u \in Threads :
    /\ t # u /\ mtx = t /\ frame[t].pc = "unlock" /\ frame[u].pc = "lock"
    /\ hist[t].regs > 0 /\ hist[t].engineCalls > 2
    /\ hist[t].dealloc /\ hist[t].removed

\* The entries of the registry made by invocation t: its two borrowed
\* arrays and the buffers the engine wrote while it ran.
OwnEntries(t) == {e \in Range(registry) : e.ptr \div 100 = t}

\* C26: when process returns, and from then on, the registry holds no entry
\* made during the invocation; the flush is the last thing the invocation
\* does before it releases the mutex: after the last engine invocation and,
\* when it completes, after the image array was built from the output.
C26_NothingLiveOnReturn ==
  \A t \in Threads :
    /\ frame[t].pc \in {"unlock", "lock"} => OwnEntries(t) = {}
    /\ hist[t].dealloc => frame[t].pc = "unlock"
    /\ (frame[t].pc = "unlock" /\ frame[t].ret = "OK") => hist[t].dealloc

C26_Witness ==
  \E t \in Threads :
    /\ frame[t].pc = "unlock" /\ frame[t].ret = "OK" /\ ~hist[t].removed
    /\ hist[t].regs > 1 /\ hist[t].produced # {}

\* The place of an engine invocation in the order of process.
Rank(c) ==
  IF c.at = "cmd1" THEN 1 ELSE IF c.at = "cmd2" THEN 2
  ELSE IF c.at = "script" THEN 3 ELSE 4

\* The engine invocations of t were made in the order reference resize,
\* input layout, script lines in file order, output reshape, each after
\* every earlier one had returned zero, the reference resize exactly when a
\* reference buffer was registered.
EngineOrderKept(t) ==
  LET cs == hist[t].calls
  IN  /\ \A i, j \in DOMAIN cs :
           i < j => /\ cs[i].ret = 0
                    /\ Rank(cs[i]) <= Rank(cs[j])
                    /\ Rank(cs[i]) = Rank(cs[j])
                         => (cs[i].at = "script" /\ cs[i].line < cs[j].line)
      /\ cs # <<>> =>
           /\ cs[1].at = IF hist[t].regs > frame[t].bit THEN "cmd1" ELSE "cmd2"
           /\ (cs[1].at = "cmd1" /\ Len(cs) > 1) => cs[2].at = "cmd2"
      /\ \A i \in DOMAIN cs :
           /\ cs[i].at = "script" =>
                \A k \in CommandLines[frame[t].script] : k < cs[i].line => k \in Ran(t)
           /\ cs[i].at = "cmd3" => CommandLines[frame[t].script] \subseteq Ran(t)

\* C27: the engine invocations of an invocation are made in the fixed
\* order, each only after every earlier one returned zero, and the
\* invocation ends by returning failure or by returning success: it never
\* ends in another way.
C27_OrderedAndEnds ==
  \A t \in Threads :
    /\ EngineOrderKept(t)
    /\ frame[t].pc # "crashed"
    /\ frame[t].pc = "unlock" => frame[t].ret \in {"FAIL", "OK"}
    /\ (frame[t].pc = "unlock" /\ frame[t].ret = "OK") =>
         (hist[t].calls # <<>> /\ hist[t].calls[Len(hist[t].calls)].at = "cmd3"
          /\ hist[t].calls[Len(hist[t].calls)].ret = 0)

\* C28: once a load_mem_cfl of the invocation has found no entry, no further
\* engine invocation is made and process returns failure.
C28_FailedLookupIsFatal ==
  \A t \in Threads :
    hist[t].missAt # 0 =>
      /\ hist[t].engineCalls = hist[t].missAt
      /\ frame[t].pc = "unlock" => frame[t].ret = "FAIL"

\* C30: under fair scheduling every invocation that holds the mutex
\* releases it at some time, and every thread that waits for the mutex
\* gets it at some time.
C30_EveryInvocationReleases ==
  \A t \in Threads :
    /\ (mtx = t) ~> (mtx # t)
    /\ (frame[t].pc = "lock") ~> (mtx = t)

\* C31: when process derives the output buffer name (line 963), a script
\* line has been executed successfully and Commands_Line holds a token; the
\* name derived from it is not empty.
C31_OutputNameFromExecutedLine ==
  \A t \in Threads :
    /\ frame[t].pc = "output" =>
         (hist[t].lastLine # 0 /\ tokens(frame[t].Commands_Line) # <<>>)
    /\ frame[t].pc \in {"cmd3", "load"} => frame[t].outputFile # <<>>

\* The indices the split selects: every location and set, and the first
\* repetition of each group of m.
Selected(dd, m) ==
  { <<loc, st, k * m>> :
      loc \in 0..(dd[7] - 1), st \in 0..(dd[6] - 1), k \in 0..((dd[5] - 1) \div m) }

\* C32: the loops of lines 1025-1043 run their body at most once for an
\* index (loc, s, n), and when they have ended they have run it for exactly
\* the selected indices.
C32_EachIndexOnce ==
  /\ ~remap.again
  /\ (remap.phase = "done" /\ remap.seen # {}) =>
       remap.seen = Selected(data_dims(remap.dims_out), remap.hdr[5])

\* Invocation t is past lines 911-918.
PastCmd1(t) ==
  frame[t].pc = "cmd2" \/ (frame[t].pc = "unwind" /\ hist[t].calls # <<>>)

\* C33: the reference resize command is issued exactly when the registry
\* holds a meas_gadgetron_ref registered by the loop of this invocation,
\* whatever the number of reconstruction bits and whichever of them have a
\* reference scan.
C33_ResizeIffRefRegistered ==
  \A t \in Threads :
    PastCmd1(t) =>
      ( (hist[t].calls # <<>> /\ hist[t].calls[1].at = "cmd1")
        <=> \E e \in OwnEntries(t) : e.name = S_meas_ref )

====
